---- MODULE Spec2Model ----
(***************************************************************************)
(* Model of the create-jira-ticket command (index.js): one run of the     *)
(* commander action, from the environment check to process exit.          *)
(*                                                                         *)
(* JavaScript values are tagged records.  The text returned by the        *)
(* completion service is a sequence of lexical tokens (JSON punctuation,  *)
(* string literals, number and keyword literals, whitespace and bare      *)
(* words); trim() and JSON.parse work on that sequence.                    *)
(***************************************************************************)
EXTENDS Integers, Sequences, FiniteSets, TLC

VARIABLES
    pc,            \* position of the action callback
    env,           \* process.env restricted to the variables the action reads
    options,       \* commander options: type, priority, input
    stdout,        \* lines written with console.log
    stderr,        \* lines written with console.error
    exitCode,      \* process exit status (meaningful once pc = "Exited")
    aiRequests,    \* requests sent to openai.chat.completions.create
    completion,    \* the value the completion call resolved with
    generated,     \* result of JSON.parse(response)
    posted,        \* requests sent with axios.post
    jiraAnswer,    \* the HTTP response the issue tracker gave to the POST
    responseJira,  \* the value axios.post resolved with
    thrown         \* message of the error thrown inside the try block

vars == <<pc, env, options, stdout, stderr, exitCode, aiRequests, completion,
          generated, posted, jiraAnswer, responseJira, thrown>>

----------------------------------------------------------------------------
(* JavaScript values *)

Undefined == [tag |-> "undefined"]
Null == [tag |-> "null"]
Str(s) == [tag |-> "string", s |-> s]
\* a finite number (a double): digits are the digits of its shortest
\* decimal representation (no leading and no trailing zero, <<>> for zero)
\* and n the position of the decimal point, so that the decimal is
\* 0.d1...dk * 10^n.  Two literals that round to the same double are the
\* same value.
Num(neg, digits, n) ==
    [tag |-> "number", neg |-> neg, digits |-> digits, n |-> n, inf |-> FALSE]
\* Infinity and -Infinity
Infinity(neg) ==
    [tag |-> "number", neg |-> neg, digits |-> <<>>, n |-> 0, inf |-> TRUE]
Bool(s) == [tag |-> "boolean", s |-> s]
Obj(p) == [tag |-> "object", props |-> p]
Arr(e) == [tag |-> "array", elems |-> e]

NoProps == [k \in {} |-> Undefined]

\* !v for the values an environment variable can hold
Not(v) == \/ v.tag \in {"undefined", "null"}
          \/ (v.tag = "string" /\ v.s = "")

\* Array.prototype.join on a sequence of strings
RECURSIVE Join(_, _)
Join(seq, sep) ==
    IF seq = <<>> THEN ""
    ELSE IF Len(seq) = 1 THEN seq[1]
    ELSE seq[1] \o sep \o Join(Tail(seq), sep)

\* Array.prototype.includes on a sequence of strings (strict equality)
Includes(seq, x) == \E i \in 1..Len(seq) : seq[i] = x

\* obj.name : property read; any non-object primitive or array has no such
\* own property, null and undefined throw a TypeError
HasProps(v) == v.tag \notin {"undefined", "null"}

Get(v, name) ==
    IF v.tag = "object" /\ name \in DOMAIN v.props THEN v.props[name]
    ELSE Undefined

RECURSIVE DigitString(_)
DigitString(ds) ==
    IF ds = <<>> THEN "" ELSE ToString(ds[1]) \o DigitString(Tail(ds))

RECURSIVE Zeros(_)
Zeros(c) == IF c <= 0 THEN "" ELSE "0" \o Zeros(c - 1)

\* Number::toString in radix 10
NumberToString(v) ==
    IF v.inf THEN (IF v.neg THEN "-Infinity" ELSE "Infinity")
    ELSE IF v.digits = <<>> THEN "0"
    ELSE LET k == Len(v.digits)
             n == v.n
             e == n - 1
             expo == (IF e >= 0 THEN "+" ELSE "-")
                        \o ToString(IF e >= 0 THEN e ELSE -e)
         IN  (IF v.neg THEN "-" ELSE "") \o
             (IF k <= n /\ n <= 21
              THEN DigitString(v.digits) \o Zeros(n - k)
              ELSE IF 0 < n /\ n <= 21
              THEN DigitString(SubSeq(v.digits, 1, n)) \o "."
                        \o DigitString(SubSeq(v.digits, n + 1, k))
              ELSE IF -6 < n /\ n <= 0
              THEN "0." \o Zeros(-n) \o DigitString(v.digits)
              ELSE IF k = 1
              THEN DigitString(v.digits) \o "e" \o expo
              ELSE ToString(v.digits[1]) \o "."
                        \o DigitString(Tail(v.digits)) \o "e" \o expo)

\* the conversion of a template literal succeeds: an object whose own
\* member toString is not a function (as every member of a parsed JSON
\* object) cannot be converted, nor can an array that holds one
RECURSIVE Stringifiable(_)
Stringifiable(v) ==
    CASE v.tag = "object" -> "toString" \notin DOMAIN v.props
      [] v.tag = "array" ->
            \A i \in 1..Len(v.elems) :
                \/ v.elems[i].tag \in {"undefined", "null"}
                \/ Stringifiable(v.elems[i])
      [] OTHER -> TRUE

\* the TypeError of a template literal whose value cannot be converted
ToPrimitiveErrorMessage == "Cannot convert object to primitive value"

\* String(v) as performed by a template literal, for a value that can be
\* converted
RECURSIVE JsString(_)
JsString(v) ==
    CASE v.tag = "undefined" -> "undefined"
      [] v.tag = "null" -> "null"
      [] v.tag \in {"string", "boolean"} -> v.s
      [] v.tag = "number" -> NumberToString(v)
      [] v.tag = "object" /\ Stringifiable(v) -> "[object Object]"
      [] v.tag = "array" ->
            Join([i \in 1..Len(v.elems) |->
                    IF v.elems[i].tag \in {"undefined", "null"} THEN ""
                    ELSE JsString(v.elems[i])], ",")

----------------------------------------------------------------------------
(* Configuration and input validation *)

\* faulty variant: only the four variables of the issue tracker are checked
requiredEnvVarsJiraOnly ==
    <<"JIRA_BASE_URL", "JIRA_EMAIL", "JIRA_API_TOKEN", "JIRA_PROJECT_KEY">>

requiredEnvVars ==
    <<"JIRA_BASE_URL", "JIRA_EMAIL", "JIRA_API_TOKEN", "JIRA_PROJECT_KEY",
      "OPENAI_API_KEY">>

\* faulty variant: one more type is let through
validTypesWithEpic == <<"Bug", "Task", "Story", "Epic">>

validTypes == <<"Bug", "Task", "Story">>

validPriorities == <<"Lowest", "Low", "Medium", "High", "Highest">>

\* indices of the required variables the loop at lines 22-26 finds unset
MissingIdx == {i \in 1..Len(requiredEnvVars) : Not(env[requiredEnvVars[i]])}

FirstMissing == requiredEnvVars[CHOOSE i \in MissingIdx :
                                    \A j \in MissingIdx : i <= j]

EnvErrorMessage(varName) ==
    "Environment variable " \o varName
        \o " is required. Please set it in your .env file."

TypeErrorMessage ==
    "Invalid type. Must be one of: " \o Join(validTypes, ", ")

PriorityErrorMessage ==
    "Invalid priority. Must be one of: " \o Join(validPriorities, ", ")

----------------------------------------------------------------------------
(* Text of a completion: a sequence of lexical tokens *)

P(c) == [k |-> "punct", v |-> c]      \* one of { } [ ] : ,
S(s) == [k |-> "string", v |-> s]     \* a double-quoted string literal
\* a number literal: sign, digits of the integer part, digits of the
\* fraction (<<>> when there is none) and exponent (0 when there is none)
N(neg, int, frac, exp) ==
    [k |-> "number", neg |-> neg, int |-> int, frac |-> frac, exp |-> exp]
L(s) == [k |-> "literal", v |-> s]    \* true, false or null
\* a run of the white space of JSON: space, \t, \n, \r
W(s) == [k |-> "space", v |-> s]
\* a run of white space with a character that is white space for trim()
\* and not for JSON: \f, \v, U+00A0, U+FEFF, ...
V(s) == [k |-> "jsspace", v |-> s]
X(s) == [k |-> "other", v |-> s]      \* any other run of characters

Text(t) == [tag |-> "text", toks |-> t]

\* String.prototype.trim: drops leading and trailing white space
RECURSIVE TrimStart(_)
TrimStart(t) ==
    IF t # <<>> /\ t[1].k \in {"space", "jsspace"}
    THEN TrimStart(Tail(t))
    ELSE t

RECURSIVE TrimEnd(_)
TrimEnd(t) ==
    IF t # <<>> /\ t[Len(t)].k \in {"space", "jsspace"}
    THEN TrimEnd(SubSeq(t, 1, Len(t) - 1))
    ELSE t

Trim(t) == TrimEnd(TrimStart(t))

\* JSON.parse.  A parse step returns [ok, value, next]: next is the index
\* of the first token after the value.
ParseFail == [ok |-> FALSE, value |-> Undefined, next |-> 0]
ParseOk(v, n) == [ok |-> TRUE, value |-> v, next |-> n]

SetProp(props, name, v) ==
    [x \in DOMAIN props \cup {name} |-> IF x = name THEN v ELSE props[x]]

Is(t, i, tok) == i <= Len(t) /\ t[i] = tok

RECURSIVE StripLeadingZeros(_)
StripLeadingZeros(ds) ==
    IF ds # <<>> /\ ds[1] = 0 THEN StripLeadingZeros(Tail(ds)) ELSE ds

RECURSIVE StripTrailingZeros(_)
StripTrailingZeros(ds) ==
    IF ds # <<>> /\ ds[Len(ds)] = 0
    THEN StripTrailingZeros(SubSeq(ds, 1, Len(ds) - 1))
    ELSE ds

\* Natural numbers of any size, for the rounding of a literal to a double:
\* sequences of limbs in base 1000, lowest limb first, <<>> for zero.

\* x without the zero limbs at its high end
BigNorm(x) ==
    LET used == {i \in 1..Len(x) : x[i] # 0}
    IN  IF x = <<>> \/ x[Len(x)] # 0 THEN x
        ELSE IF used = {} THEN <<>>
        ELSE SubSeq(x, 1, CHOOSE i \in used : \A j \in used : j <= i)

\* the limbs of t[from..to], whose entries may lie outside 0..999, with a
\* carry coming in and the carry going out
RECURSIVE BigCarry(_, _, _, _)
BigCarry(t, from, to, carry) ==
    IF from > to THEN [limbs |-> <<>>, carry |-> carry]
    ELSE IF from = to
    THEN LET sum == t[from] + carry
         IN  [limbs |-> <<sum % 1000>>, carry |-> sum \div 1000]
    ELSE LET mid == (from + to) \div 2
             lower == BigCarry(t, from, mid, carry)
             upper == BigCarry(t, mid + 1, to, lower.carry)
         IN  [limbs |-> lower.limbs \o upper.limbs, carry |-> upper.carry]

BigFix(t) == BigNorm(BigCarry(t, 1, Len(t), 0).limbs)

BigLimb(x, i) == IF i <= Len(x) THEN x[i] ELSE 0

BigAdd(x, y) ==
    BigFix([i \in 1..((IF Len(x) > Len(y) THEN Len(x) ELSE Len(y)) + 1) |->
                BigLimb(x, i) + BigLimb(y, i)])

\* x - y for x >= y
BigSub(x, y) == BigFix([i \in 1..Len(x) |-> x[i] - BigLimb(y, i)])

\* x * f for 0 <= f <= 2^21
BigMulSmall(x, f) ==
    IF x = <<>> THEN <<>>
    ELSE BigFix([i \in 1..(Len(x) + 3) |-> BigLimb(x, i) * f])

\* x[from] * y[i - from] + ... + x[to] * y[i - to]
RECURSIVE BigDot(_, _, _, _, _)
BigDot(x, y, i, from, to) ==
    IF from > to THEN 0
    ELSE IF from = to THEN x[from] * y[i - from]
    ELSE BigDot(x, y, i, from, (from + to) \div 2)
            + BigDot(x, y, i, (from + to) \div 2 + 1, to)

\* x * y
BigMul(x, y) ==
    IF x = <<>> \/ y = <<>> THEN <<>>
    ELSE BigFix([i \in 1..(Len(x) + Len(y)) |->
                    BigDot(x, y, i + 1,
                           IF i > Len(y) THEN i + 1 - Len(y) ELSE 1,
                           IF i < Len(x) THEN i ELSE Len(x))])

\* 2^k
RECURSIVE BigPow2(_)
BigPow2(k) ==
    IF k <= 21 THEN BigFix(<<2 ^ k, 0, 0>>)
    ELSE LET root == BigPow2(k \div 2)
         IN  BigMulSmall(BigMul(root, root), IF k % 2 = 1 THEN 2 ELSE 1)

\* x * 2^k
BigTimesPow2(x, k) == BigMul(x, BigPow2(k))

\* x * 1000^k
BigShift(x, k) == IF x = <<>> THEN <<>> ELSE [i \in 1..k |-> 0] \o x

\* x * 10^k
BigTimesPow10(x, k) == BigShift(BigMulSmall(x, 10 ^ (k % 3)), k \div 3)

\* -1, 0 or 1 as x is less than, equal to or greater than y
BigCmp(x, y) ==
    IF Len(x) # Len(y) THEN (IF Len(x) < Len(y) THEN -1 ELSE 1)
    ELSE IF x = y THEN 0
    ELSE LET top == CHOOSE i \in 1..Len(x) :
                        /\ x[i] # y[i]
                        /\ \A j \in (i + 1)..Len(x) : x[j] = y[j]
         IN  IF x[top] < y[top] THEN -1 ELSE 1

\* the number written with the decimal digits ds, highest digit first
BigFromDigits(ds) ==
    LET sig == StripLeadingZeros(ds)
        len == Len(sig)
        Digit(j) == IF j < len THEN sig[len - j] ELSE 0
    IN  [i \in 1..((len + 2) \div 3) |->
            Digit(3 * i - 3) + 10 * Digit(3 * i - 2) + 100 * Digit(3 * i - 1)]

\* the decimal digits of x, highest first, <<>> for zero
BigToDigits(x) ==
    StripLeadingZeros(
        [j \in 1..(3 * Len(x)) |->
            (x[Len(x) - ((j - 1) \div 3)]
                \div (10 ^ (2 - ((j - 1) % 3)))) % 10])

\* long division, from the decimal digit of weight 10^j down: qs are the
\* digits of the quotient found so far and r is what is left to divide.
\* BigDivStep finds the next digit of the quotient, part being den * 10^j,
\* and BigDivNext takes digit * part off r.
RECURSIVE BigDivFrom(_, _, _, _)
BigDivNext(r, den, j, qs, part, digit) ==
    BigDivFrom(IF digit = 0 THEN r ELSE BigSub(r, BigMulSmall(part, digit)),
               den, j - 1, Append(qs, digit))

BigDivStep(r, den, j, qs, part) ==
    BigDivNext(r, den, j, qs, part,
               CHOOSE i \in 0..9 : BigCmp(BigMulSmall(part, i + 1), r) > 0)

BigDivFrom(r, den, j, qs) ==
    IF j < 0
    THEN [q |-> BigFromDigits(qs), digits |-> qs, r |-> r, den |-> den]
    ELSE BigDivStep(r, den, j, qs, BigTimesPow10(den, j))

\* the quotient q of num by den, its 18 decimal digits and the remainder r,
\* for a quotient below 10^18
BigDiv(num, den) == BigDivFrom(num, den, 17, <<>>)

\* num / den * 2^e brought to num / den < 2^53
RECURSIVE ScaleDown(_, _, _)
ScaleDown(num, den, e) ==
    IF BigCmp(num, BigTimesPow2(den, 53)) >= 0
    THEN ScaleDown(num, BigMulSmall(den, 2), e + 1)
    ELSE [num |-> num, den |-> den, e |-> e]

\* the least n with v / w < 10^n, searched from n
RECURSIVE DecimalExponent(_, _, _)
DecimalExponent(v, w, n) ==
    LET Below(i) == IF i >= 0 THEN BigCmp(v, BigTimesPow10(w, i)) < 0
                    ELSE BigCmp(BigTimesPow10(v, -i), w) < 0
    IN  IF ~Below(n) THEN DecimalExponent(v, w, n + 1)
        ELSE IF Below(n - 1) THEN DecimalExponent(v, w, n - 1)
        ELSE n

\* Number::toString, the choice of the digits: the decimal of fewest digits
\* k that rounds to the double v, and of those the one nearest to v (the
\* even one of two equally near).  All is counted in units of 10^(c.n - 17),
\* in which v has 17 digits before the point: c.digits are these digits,
\* c.twice is 2 * v rounded down and c.inexact says that it was rounded; the
\* decimals that round to v are those from c.least to c.most.  Of the
\* decimals of k digits, below and above are the two next to v.
RECURSIVE ShortestFrom(_, _)
ShortestRounded(c, shortest) ==
    Num(c.neg, StripTrailingZeros(shortest), c.n + Len(shortest) - 17)

ShortestPick(c, k, below, above, belowFits, aboveFits, nearer) ==
    IF belowFits /\ aboveFits
    THEN ShortestRounded(c, BigToDigits(
            IF nearer > 0 \/ (nearer = 0 /\ (c.inexact \/ c.digits[k] % 2 = 1))
            THEN above ELSE below))
    ELSE IF belowFits THEN ShortestRounded(c, BigToDigits(below))
    ELSE IF aboveFits THEN ShortestRounded(c, BigToDigits(above))
    ELSE ShortestFrom(c, k + 1)

ShortestBetween(c, k, below, above) ==
    ShortestPick(c, k, below, above,
                 BigCmp(below, c.least) >= 0 /\ BigCmp(below, c.most) <= 0,
                 BigCmp(above, c.least) >= 0 /\ BigCmp(above, c.most) <= 0,
                 BigCmp(c.twice, BigAdd(below, above)))

ShortestAbove(c, k, below) ==
    ShortestBetween(c, k, below, BigAdd(below, BigTimesPow10(<<1>>, 17 - k)))

ShortestFrom(c, k) ==
    ShortestAbove(c, k, BigFromDigits(SubSeq(c.digits, 1, k)
                                        \o [i \in 1..(17 - k) |-> 0]))

\* v, low and high are the double and the two ends of the decimals that
\* round to it, each with its quotient, its digits and its remainder in
\* units of 10^(n - 17); the ends count when the significand is even
DoubleDigits(neg, even, n, v, low, high, half) ==
    ShortestFrom(
        [neg |-> neg, n |-> n, digits |-> SubSeq(v.digits, 2, 18),
         twice |-> BigAdd(BigMulSmall(v.q, 2),
                          IF half >= 0 THEN <<1>> ELSE <<>>),
         inexact |-> v.r # <<>> /\ half # 0,
         least |-> IF even /\ low.r = <<>> THEN low.q
                   ELSE BigAdd(low.q, <<1>>),
         most |-> IF even \/ high.r # <<>> THEN high.q
                  ELSE BigSub(high.q, <<1>>)], 1)

DoubleHalf(neg, even, n, v, low, high) ==
    DoubleDigits(neg, even, n, v, low, high,
                 BigCmp(BigMulSmall(v.r, 2), v.den))

\* t / w in units of 10^(n - 17)
InUnits(t, w, n) ==
    IF n >= 17 THEN BigDiv(t, BigTimesPow10(w, n - 17))
    ELSE BigDiv(BigTimesPow10(t, 17 - n), w)

DoubleBetween(neg, even, v, low, high, w, n) ==
    DoubleHalf(neg, even, n, InUnits(v, w, n), InUnits(low, w, n),
               InUnits(high, w, n))

\* the double of significand m and exponent e (m * 2^e, 0 < m < 2^53), by
\* its shortest decimal; n0 is where the search of the decimal exponent
\* starts.  The decimals that round to the double lie between the middles
\* to its two neighbours, which are a quarter or a half of 2^e below and a
\* half of 2^e above; v, low and high are counted in units of 1 / w.
DoubleScaled(neg, even, v, low, high, w, n0) ==
    DoubleBetween(neg, even, v, low, high, w, DecimalExponent(v, w, n0))

DoubleQuarters(neg, m, e, n0, quarters, up) ==
    DoubleScaled(neg, m[1] % 2 = 0,
                 BigMul(quarters, up),
                 BigMul(BigSub(quarters,
                               IF m = BigPow2(52) /\ e > -1074 THEN <<1>>
                               ELSE <<2>>), up),
                 BigMul(BigAdd(quarters, <<2>>), up),
                 BigPow2(IF e < 2 THEN 2 - e ELSE 0), n0)

DoubleValue(neg, m, e, n0) ==
    DoubleQuarters(neg, m, e, n0, BigMulSmall(m, 4),
                   BigPow2(IF e > 2 THEN e - 2 ELSE 0))

\* the double nearest to 0.d1...dk * 10^n (ties to the even significand),
\* for digits without leading or trailing zero.  The decimal is at least
\* 10^(n-1), which is at least 2^StartExponent(n) * 2^52: the significand
\* is the quotient by a power of two that is found from there, and by
\* 2^-1074 for a subnormal.
StartExponent(n) ==
    LET low == IF n >= 1 THEN ((n - 1) * 3321) \div 1000
               ELSE -(((1 - n) * 3322 + 999) \div 1000)
    IN  IF low - 52 < -1074 THEN -1074 ELSE low - 52

RoundCarried(neg, n, rounded, e, carry) ==
    IF rounded = <<>> THEN Num(FALSE, <<>>, 0)
    ELSE IF (IF carry THEN e + 1 ELSE e) > 971 THEN Infinity(neg)
    ELSE DoubleValue(neg, IF carry THEN BigPow2(52) ELSE rounded,
                     IF carry THEN e + 1 ELSE e, n)

RoundedUp(neg, n, rounded, e) ==
    RoundCarried(neg, n, rounded, e, rounded = BigPow2(53))

RoundHalf(neg, n, quot, e, half) ==
    RoundedUp(neg, n,
              IF half > 0 \/ (half = 0 /\ quot.digits[18] % 2 = 1)
              THEN BigAdd(quot.q, <<1>>)
              ELSE quot.q, e)

RoundQuotient(neg, n, quot, e) ==
    RoundHalf(neg, n, quot, e, BigCmp(BigMulSmall(quot.r, 2), quot.den))

RoundScaled(neg, n, scaled) ==
    RoundQuotient(neg, n, BigDiv(scaled.num, scaled.den), scaled.e)

RoundFrom(neg, digits, n, point, start) ==
    RoundScaled(neg, n,
        ScaleDown(BigMul(BigTimesPow10(BigFromDigits(digits),
                                       IF point > 0 THEN point ELSE 0),
                         BigPow2(IF start < 0 THEN -start ELSE 0)),
                  BigMul(BigTimesPow10(<<1>>, IF point < 0 THEN -point ELSE 0),
                         BigPow2(IF start > 0 THEN start ELSE 0)),
                  start))

RoundToDouble(neg, digits, n) ==
    IF digits = <<>> \/ n < -330 THEN Num(FALSE, <<>>, 0)
    ELSE IF n > 310 THEN Infinity(neg)
    ELSE RoundFrom(neg, digits, n, n - Len(digits), StartExponent(n))

\* the number a literal denotes: the nearest double; -0 converts and compares
\* as 0.  A decimal of at most 15 significant digits between 10^-307 and
\* 10^308 is the shortest decimal of the double it rounds to, so its digits
\* are kept as they are.
DecimalValue(neg, digits, n) ==
    IF digits = <<>> THEN Num(FALSE, <<>>, 0)
    ELSE IF Len(digits) <= 15 /\ n >= -306 /\ n <= 308
    THEN Num(neg, digits, n)
    ELSE RoundToDouble(neg, digits, n)

DecimalPoint(tok, lead) ==
    DecimalValue(tok.neg, StripTrailingZeros(lead),
                 Len(lead) + tok.exp - Len(tok.frac))

NumberValue(tok) == DecimalPoint(tok, StripLeadingZeros(tok.int \o tok.frac))

RECURSIVE ParseValue(_, _), ParseMembers(_, _, _), ParseElements(_, _, _)
ParseValue(t, i) ==
    IF i > Len(t) THEN ParseFail
    ELSE CASE t[i].k = "string" -> ParseOk(Str(t[i].v), i + 1)
           [] t[i].k = "number" -> ParseOk(NumberValue(t[i]), i + 1)
           [] t[i].k = "literal" ->
                 ParseOk(IF t[i].v = "null" THEN Null ELSE Bool(t[i].v), i + 1)
           [] t[i] = P("{") ->
                 IF Is(t, i + 1, P("}")) THEN ParseOk(Obj(NoProps), i + 2)
                 ELSE ParseMembers(t, i + 1, NoProps)
           [] t[i] = P("[") ->
                 IF Is(t, i + 1, P("]")) THEN ParseOk(Arr(<<>>), i + 2)
                 ELSE ParseElements(t, i + 1, <<>>)
           [] OTHER -> ParseFail

\* "name" : value, followed by , and another member or by }
ParseMembers(t, i, props) ==
    IF ~(i + 1 <= Len(t) /\ t[i].k = "string" /\ t[i + 1] = P(":"))
    THEN ParseFail
    ELSE LET r == ParseValue(t, i + 2) IN
         IF ~r.ok THEN ParseFail
         ELSE LET q == SetProp(props, t[i].v, r.value) IN
              IF Is(t, r.next, P("}")) THEN ParseOk(Obj(q), r.next + 1)
              ELSE IF Is(t, r.next, P(",")) THEN ParseMembers(t, r.next + 1, q)
              ELSE ParseFail

\* value, followed by , and another element or by ]
ParseElements(t, i, elems) ==
    LET r == ParseValue(t, i) IN
    IF ~r.ok THEN ParseFail
    ELSE LET q == Append(elems, r.value) IN
         IF Is(t, r.next, P("]")) THEN ParseOk(Arr(q), r.next + 1)
         ELSE IF Is(t, r.next, P(",")) THEN ParseElements(t, r.next + 1, q)
         ELSE ParseFail

\* faulty variant: the first value of the text is taken and the rest ignored
JSONparseFirstValue(t) ==
    LET u == SelectSeq(t, LAMBDA x : x.k # "space")
        r == ParseValue(u, 1)
    IN  IF r.ok THEN r ELSE ParseFail

\* the white space of JSON between tokens is insignificant, any other
\* white space is a syntax error; the whole text must be one value
JSONparse(t) ==
    LET u == SelectSeq(t, LAMBDA x : x.k # "space")
        r == ParseValue(u, 1)
    IN  IF r.ok /\ r.next = Len(u) + 1 THEN r ELSE ParseFail

----------------------------------------------------------------------------
(* Requests *)

\* lines 49-78
Prompt(type, priority, input) ==
    "\nGenerate a Jira ticket based on the following:\n\nTicket Type: "
    \o type \o "\nPriority: " \o priority \o "\nDescription: " \o input
    \o "\n\nUse the following template:\n\n"
    \o "Summary: [Concise, action-oriented title]\n\n"
    \o "Description:\n1. Background\n2. Problem / Requirement\n"
    \o "3. Expected Behavior\n"
    \o (IF type = "Bug" THEN "4. Actual Behavior" ELSE "")
    \o "\n5. Notes / Constraints\n\n"
    \o "Acceptance Criteria:\n- Given ...\n- When ...\n- Then ...\n\n"
    \o "Output the summary, description, and acceptance criteria in JSON format:\n"
    \o "{\n  \"summary\": \"...\",\n  \"description\": \"...\",\n"
    \o "  \"acceptanceCriteria\": \"...\"\n}\n"

\* line 83
MaxTokens == 1000

\* lines 45-47, 80-84
CompletionRequest ==
    [apiKey |-> env["OPENAI_API_KEY"],
     model |-> "gpt-3.5-turbo",
     messages |-> <<[role |-> "user",
                     content |-> Prompt(options.type, options.priority,
                                        options.input)]>>,
     max_tokens |-> MaxTokens]

\* faulty variant: the criteria are put before the description
FullDescriptionSwapped(description, acceptanceCriteria) ==
    JsString(acceptanceCriteria) \o "\n\nAcceptance Criteria:\n"
        \o JsString(description)

\* line 97
FullDescription(description, acceptanceCriteria) ==
    JsString(description) \o "\n\nAcceptance Criteria:\n"
        \o JsString(acceptanceCriteria)

\* line 102
JiraUrl == JsString(env["JIRA_BASE_URL"]) \o "/rest/api/3/issue"

\* Buffer.from(s).toString('base64') on the credentials a run can hold
Base64(s) ==
    CASE s = "dev@example.com:s3cr3t" -> "ZGV2QGV4YW1wbGUuY29tOnMzY3IzdA=="

\* line 103
Auth ==
    Base64(JsString(env["JIRA_EMAIL"]) \o ":"
            \o JsString(env["JIRA_API_TOKEN"]))

\* lines 105-119
Payload ==
    [fields |->
        [project |-> [key |-> env["JIRA_PROJECT_KEY"]],
         summary |-> Get(generated, "summary"),
         description |-> FullDescription(Get(generated, "description"),
                                         Get(generated, "acceptanceCriteria")),
         issuetype |-> [name |-> options.type],
         priority |-> [name |-> options.priority]]]

\* lines 121-126
PostRequest ==
    [url |-> JiraUrl,
     data |-> Payload,
     headers |-> [Authorization |-> "Basic " \o Auth,
                  ContentType |-> "application/json"]]

\* faulty variant: the URL of the REST resource is printed
TicketUrlOfApi(ticketKey) ==
    JsString(env["JIRA_BASE_URL"]) \o "/rest/api/3/issue/"
        \o JsString(ticketKey)

\* line 129
TicketUrl(ticketKey) ==
    JsString(env["JIRA_BASE_URL"]) \o "/browse/" \o JsString(ticketKey)

\* axios resolves the promise for a 2xx status and rejects it otherwise
ValidateStatus(status) == status >= 200 /\ status < 300

AxiosErrorMessage(status) ==
    "Request failed with status code " \o ToString(status)

----------------------------------------------------------------------------
(* Inputs of a run *)

BaseUrls == {"https://example.atlassian.net", "https://jira.local/"}

EnvChoices ==
    [JIRA_BASE_URL : {Undefined, Str("")} \cup {Str(u) : u \in BaseUrls},
     JIRA_EMAIL : {Undefined, Str(""), Str("dev@example.com")},
     JIRA_API_TOKEN : {Undefined, Str(""), Str("s3cr3t")},
     JIRA_PROJECT_KEY : {Undefined, Str(""), Str("PROJ")},
     OPENAI_API_KEY : {Undefined, Str(""), Str("sk-test")}]

TypeChoices == {"Bug", "Task", "Story", "bug", "STORY", "Epic", ""}

PriorityChoices ==
    {"Lowest", "Low", "Medium", "High", "Highest", "high", "Critical", ""}

InputChoices == {"Login API returns 500 when token expires"}

OptionChoices ==
    [type : TypeChoices, priority : PriorityChoices, input : InputChoices]

\* Replies of the completion service
ReplyKeys == <<"summary", "description", "acceptanceCriteria">>

SampleSummary == "Fix 500 error in login API when token expires"

SampleDescription ==
    "1. Background\nThe login API is critical for user authentication."

SampleCriteria ==
    "- Given a user with an expired token\n- When they attempt to login\n"
        \o "- Then the API returns 401"

\* the tokens of a key's value; <<>> stands for a key the reply leaves out
ReplyValueChoices ==
    [summary : {<<>>, <<S("")>>, <<S(SampleSummary)>>, <<L("null")>>},
     description :
        {<<>>, <<S("")>>, <<S(SampleDescription)>>,
         <<N(FALSE, <<1>>, <<0>>, 0)>>,
         <<P("{"), S("toString"), P(":"), S("x"), P("}")>>},
     acceptanceCriteria :
        {<<>>, <<S("")>>, <<S(SampleCriteria)>>,
         <<P("["), S("Given a user"), P(","), S("Then 401"), P("]")>>,
         <<P("["), P("{"), S("toString"), P(":"), L("null"), P("}"), P("]")>>}]

RECURSIVE MemberTokens(_, _)
MemberTokens(keys, vals) ==
    IF keys = <<>> THEN <<>>
    ELSE LET rest == MemberTokens(Tail(keys), vals) IN
         IF vals[Head(keys)] = <<>> THEN rest
         ELSE <<S(Head(keys)), P(":")>> \o vals[Head(keys)]
                \o (IF rest = <<>> THEN <<>> ELSE <<P(",")>>) \o rest

ObjectText(vals) == <<P("{")>> \o MemberTokens(ReplyKeys, vals) \o <<P("}")>>

FullReply ==
    ObjectText([summary |-> <<S(SampleSummary)>>,
                description |-> <<S(SampleDescription)>>,
                acceptanceCriteria |-> <<S(SampleCriteria)>>])

\* texts that are not one JSON value
MalformedTexts ==
    {<<>>,
     <<X("I'm sorry, I cannot help with that.")>>,
     <<X("Here is the ticket:"), W("\n")>> \o FullReply,
     <<X("~~~json"), W("\n")>> \o FullReply \o <<W("\n"), X("~~~")>>,
     SubSeq(FullReply, 1, Len(FullReply) - 1),
     SubSeq(FullReply, 1, Len(FullReply) - 1) \o <<P(","), P("}")>>,
     <<P("{"), S("summary"), S(SampleSummary), P("}")>>,
     <<P("{"), V("\f"), P("}")>>,
     FullReply \o FullReply}

\* other texts: surrounding white space, pretty printing, a repeated key,
\* an extra key, number literals that are not the decimal of a double
\* (9007199254740993 and -1e400), and values that are not objects
OtherTexts ==
    {<<W("\n")>> \o FullReply \o <<W("  \n")>>,
     ObjectText([summary |-> <<S(SampleSummary)>>,
                 description |->
                    <<N(FALSE, <<9,0,0,7,1,9,9,2,5,4,7,4,0,9,9,3>>, <<>>, 0)>>,
                 acceptanceCriteria |-> <<N(TRUE, <<1>>, <<>>, 400)>>]),
     <<P("{"), W("\n  "), S("summary"), P(":"), W(" "), S("Add user profile page"),
       P(","), W("\n  "), S("description"), P(":"), W(" "), S("1. Background"),
       P(","), W("\n  "), S("acceptanceCriteria"), P(":"), W(" "),
       S("- Given a signed-in user"), W("\n"), P("}")>>,
     <<P("{"), S("summary"), P(":"), S("first"), P(","),
       S("summary"), P(":"), S(SampleSummary), P(","),
       S("labels"), P(":"), P("["), P("]"), P("}")>>,
     <<L("null")>>,
     <<L("true")>>,
     <<N(FALSE, <<4, 2>>, <<>>, 0)>>,
     <<V("\f"), W("\n")>> \o FullReply \o <<V("\f")>>,
     <<S(SampleSummary)>>,
     <<P("["), FullReply[1], FullReply[Len(FullReply)], P("]")>>}

ReplyTexts ==
    {ObjectText(v) : v \in ReplyValueChoices} \cup MalformedTexts
        \cup OtherTexts

Completions ==
    {[choices |-> <<>>]}
    \cup {[choices |-> <<[message |-> [content |-> c]]>>] :
            c \in {Null} \cup {Text(t) : t \in ReplyTexts}}

CompletionErrors ==
    {"401 Incorrect API key provided: sk-test.", "Connection error."}

\* Answers of the issue tracker
Statuses == {200, 201, 400, 401, 500}

\* bodies as the client hands them over, parsed; the keys 4e-324,
\* 0.10000000000000001 and 1e-400 are literals that are not the decimal of
\* a double
ResponseBodies ==
    {Obj([id |-> Str("10000"), key |-> Str("PROJ-123"),
          self |-> Str("https://example.atlassian.net/rest/api/3/issue/10000")]),
     Obj([key |-> Str("OPS-7")]),
     Obj([id |-> Str("10000")]),
     Obj([key |-> Num(FALSE, <<1, 0, 0, 0, 1>>, 5)]),
     Obj([key |-> NumberValue(N(FALSE, <<4>>, <<>>, -324))]),
     Obj([key |-> NumberValue(N(FALSE, <<0>>,
                                <<1,0,0,0,0,0,0,0,0,0,0,0,0,0,0,0,1>>, 0))]),
     Obj([key |-> NumberValue(N(FALSE, <<1>>, <<>>, -400))]),
     Obj([key |-> Obj([toString |-> Str("x")])]),
     Obj(NoProps),
     Obj([errorMessages |-> Arr(<<Str("priority is required")>>)]),
     Str(""),
     Null}

PostErrors == {"connect ECONNREFUSED 127.0.0.1:443"}

Init ==
    /\ pc = "Loading"
    /\ env \in EnvChoices
    /\ options \in OptionChoices
    /\ stdout = <<>>
    /\ stderr = <<>>
    /\ exitCode = 0
    /\ aiRequests = <<>>
    /\ completion = Undefined
    /\ generated = Undefined
    /\ posted = <<>>
    /\ jiraAnswer = Undefined
    /\ responseJira = Undefined
    /\ thrown = Undefined

----------------------------------------------------------------------------
(* Steps of the action callback *)

\* throw new Error(msg) inside the try block: control moves to the catch
Throw(msg) ==
    /\ pc' = "Caught"
    /\ thrown' = Str(msg)

\* faulty variant: the type is checked before the environment
LoadConfigAfterType ==
    /\ pc = "Loading"
    /\ IF ~Includes(validTypes, options.type)
       THEN Throw(TypeErrorMessage)
       ELSE IF MissingIdx # {}
       THEN Throw(EnvErrorMessage(FirstMissing))
       ELSE pc' = "Validating" /\ UNCHANGED thrown
    /\ UNCHANGED <<env, options, stdout, stderr, exitCode, aiRequests,
                   completion, generated, posted, jiraAnswer, responseJira>>

\* lines 20-26
LoadConfig ==
    /\ pc = "Loading"
    /\ IF MissingIdx # {}
       THEN Throw(EnvErrorMessage(FirstMissing))
       ELSE pc' = "Validating" /\ UNCHANGED thrown
    /\ UNCHANGED <<env, options, stdout, stderr, exitCode, aiRequests,
                   completion, generated, posted, jiraAnswer, responseJira>>

\* lines 28-40
ValidateInput ==
    /\ pc = "Validating"
    /\ IF ~Includes(validTypes, options.type)
       THEN Throw(TypeErrorMessage)
       ELSE IF ~Includes(validPriorities, options.priority)
       THEN Throw(PriorityErrorMessage)
       ELSE pc' = "Generating" /\ UNCHANGED thrown
    /\ UNCHANGED <<env, options, stdout, stderr, exitCode, aiRequests,
                   completion, generated, posted, jiraAnswer, responseJira>>

\* lines 42-84: the request to the completion service is sent
RequestCompletion ==
    /\ pc = "Generating"
    /\ stdout' = Append(stdout, "Generating ticket content using AI...")
    /\ aiRequests' = Append(aiRequests, CompletionRequest)
    /\ pc' = "AwaitCompletion"
    /\ UNCHANGED <<env, options, stderr, exitCode, completion, generated,
                   posted, jiraAnswer, responseJira, thrown>>

\* line 80: the awaited promise is fulfilled
CompletionResolves ==
    /\ pc = "AwaitCompletion"
    /\ \E c \in Completions : completion' = c
    /\ pc' = "Parsing"
    /\ UNCHANGED <<env, options, stdout, stderr, exitCode, aiRequests,
                   generated, posted, jiraAnswer, responseJira, thrown>>

\* line 80: the awaited promise is rejected (transport or API error)
CompletionRejects ==
    /\ pc = "AwaitCompletion"
    /\ \E m \in CompletionErrors : Throw(m)
    /\ UNCHANGED <<env, options, stdout, stderr, exitCode, aiRequests,
                   completion, generated, posted, jiraAnswer, responseJira>>

\* lines 86-94
ParseReply ==
    /\ pc = "Parsing"
    /\ IF completion.choices = <<>>
       THEN /\ Throw("Cannot read properties of undefined (reading 'message')")
            /\ UNCHANGED generated
       ELSE LET content == completion.choices[1].message.content IN
            IF content.tag = "null"
            THEN /\ Throw("Cannot read properties of null (reading 'trim')")
                 /\ UNCHANGED generated
            ELSE LET r == JSONparse(Trim(content.toks)) IN
                 IF ~r.ok
                 THEN /\ Throw("Failed to parse AI response. Please try again.")
                      /\ UNCHANGED generated
                 ELSE /\ generated' = r.value
                      /\ IF ~HasProps(r.value)
                         THEN Throw("Cannot destructure property 'summary' of "
                                    \o "'generated' as it is null.")
                         ELSE pc' = "Submitting" /\ UNCHANGED thrown
    /\ UNCHANGED <<env, options, stdout, stderr, exitCode, aiRequests,
                   completion, posted, jiraAnswer, responseJira>>

\* lines 96-126: the POST is sent
PostIssue ==
    /\ pc = "Submitting"
    /\ IF \/ ~Stringifiable(Get(generated, "description"))
          \/ ~Stringifiable(Get(generated, "acceptanceCriteria"))
       THEN /\ Throw(ToPrimitiveErrorMessage)
            /\ UNCHANGED <<stdout, posted>>
       ELSE /\ stdout' = Append(stdout, "Creating Jira ticket...")
            /\ posted' = Append(posted, PostRequest)
            /\ pc' = "AwaitPost"
            /\ UNCHANGED thrown
    /\ UNCHANGED <<env, options, stderr, exitCode, aiRequests, completion,
                   generated, jiraAnswer, responseJira>>

\* faulty variant: a rejected POST is sent once more
PostAnsweredRetry ==
    /\ pc = "AwaitPost"
    /\ \E status \in Statuses, data \in ResponseBodies :
        /\ jiraAnswer' = [status |-> status, data |-> data]
        /\ IF ValidateStatus(status)
           THEN /\ responseJira' = [status |-> status, data |-> data]
                /\ pc' = "Reporting"
                /\ UNCHANGED <<thrown, posted>>
           ELSE IF Len(posted) < 2
           THEN /\ posted' = Append(posted, PostRequest)
                /\ UNCHANGED <<pc, thrown, responseJira>>
           ELSE /\ Throw(AxiosErrorMessage(status))
                /\ UNCHANGED <<responseJira, posted>>
    /\ UNCHANGED <<env, options, stdout, stderr, exitCode, aiRequests,
                   completion, generated>>

\* line 121: the issue tracker answers; axios fulfils or rejects the promise
PostAnswered ==
    /\ pc = "AwaitPost"
    /\ \E status \in Statuses, data \in ResponseBodies :
        /\ jiraAnswer' = [status |-> status, data |-> data]
        /\ IF ValidateStatus(status)
           THEN /\ responseJira' = [status |-> status, data |-> data]
                /\ pc' = "Reporting"
                /\ UNCHANGED thrown
           ELSE /\ Throw(AxiosErrorMessage(status))
                /\ UNCHANGED responseJira
    /\ UNCHANGED <<env, options, stdout, stderr, exitCode, aiRequests,
                   completion, generated, posted>>

\* line 121: no answer arrives (transport error)
PostFails ==
    /\ pc = "AwaitPost"
    /\ \E m \in PostErrors : Throw(m)
    /\ UNCHANGED <<env, options, stdout, stderr, exitCode, aiRequests,
                   completion, generated, posted, jiraAnswer, responseJira>>

\* lines 128-133, then the process ends with its default status
ReportSuccess ==
    /\ pc = "Reporting"
    /\ IF ~HasProps(responseJira.data)
       THEN /\ Throw("Cannot read properties of null (reading 'key')")
            /\ UNCHANGED <<stdout, exitCode>>
       ELSE LET ticketKey == Get(responseJira.data, "key") IN
            IF ~Stringifiable(ticketKey)
            THEN /\ Throw(ToPrimitiveErrorMessage)
                 /\ UNCHANGED <<stdout, exitCode>>
            ELSE /\ stdout' = stdout \o <<"Ticket created successfully!",
                                          "Key: " \o JsString(ticketKey),
                                          "URL: " \o TicketUrl(ticketKey)>>
                 /\ exitCode' = 0
                 /\ pc' = "Exited"
                 /\ UNCHANGED thrown
    /\ UNCHANGED <<env, options, stderr, aiRequests, completion, generated,
                   posted, jiraAnswer, responseJira>>

\* faulty variant: the error is printed and the exit status left alone
ReportErrorNoExit ==
    /\ pc = "Caught"
    /\ stderr' = Append(stderr, "Error: " \o thrown.s)
    /\ pc' = "Exited"
    /\ UNCHANGED <<env, options, stdout, exitCode, aiRequests, completion,
                   generated, posted, jiraAnswer, responseJira, thrown>>

\* lines 135-138
ReportError ==
    /\ pc = "Caught"
    /\ stderr' = Append(stderr, "Error: " \o thrown.s)
    /\ exitCode' = 1
    /\ pc' = "Exited"
    /\ UNCHANGED <<env, options, stdout, aiRequests, completion, generated,
                   posted, jiraAnswer, responseJira, thrown>>

Next ==
    \/ LoadConfig
    \/ ValidateInput
    \/ RequestCompletion
    \/ CompletionResolves
    \/ CompletionRejects
    \/ ParseReply
    \/ PostIssue
    \/ PostAnswered
    \/ PostFails
    \/ ReportSuccess
    \/ ReportError

Spec == Init /\ [][Next]_vars

----------------------------------------------------------------------------
(* Properties *)

EnvNames ==
    {"JIRA_BASE_URL", "JIRA_EMAIL", "JIRA_API_TOKEN", "JIRA_PROJECT_KEY",
     "OPENAI_API_KEY"}

SomeEnvMissing == \E v \in EnvNames : env[v] = Undefined

AllEnvSet == \A v \in EnvNames : env[v].tag = "string" /\ env[v].s # ""

TypeRecognized == options.type \in {"Bug", "Task", "Story"}

PriorityRecognized ==
    options.priority \in {"Lowest", "Low", "Medium", "High", "Highest"}

ProgressLines ==
    <<"Generating ticket content using AI...", "Creating Jira ticket...">>

\* the run has ended with status 1 and the one line "Error: <msg>"
FailedWith(msg) ==
    /\ pc = "Exited"
    /\ exitCode = 1
    /\ stderr = <<"Error: " \o msg>>

\* the error msg was thrown: it is being reported, or has been
Raised(msg) ==
    /\ pc \in {"Caught", "Exited"}
    /\ thrown = Str(msg)
    /\ pc = "Exited" => FailedWith(msg)

\* the completion call returned a text
HasReplyText ==
    /\ completion # Undefined
    /\ completion.choices # <<>>
    /\ completion.choices[1].message.content.tag = "text"

ReplyTokens == completion.choices[1].message.content.toks

Parsed == JSONparse(Trim(ReplyTokens))

Blank(v) == v = Undefined \/ v = Str("")

NonEmptyString(v) == v.tag = "string" /\ v.s # ""

ReplyIncomplete ==
    /\ HasReplyText
    /\ LET reply == Parsed
       IN  /\ reply.ok
           /\ \E k \in {"summary", "description", "acceptanceCriteria"} :
                    Blank(Get(reply.value, k))

ReplyWellFormed ==
    /\ HasReplyText
    /\ LET reply == Parsed
       IN  /\ reply.ok
           /\ \A k \in {"summary", "description", "acceptanceCriteria"} :
                    NonEmptyString(Get(reply.value, k))

\* C1: when one of the five required environment variables is missing, no
\* request is ever sent to the completion service or to the issue tracker,
\* the run never gets past the environment check, and it ends with exit
\* status 1.
C1_MissingEnvFailsBeforeNetwork ==
    SomeEnvMissing =>
        /\ aiRequests = <<>>
        /\ posted = <<>>
        /\ pc \in {"Loading", "Caught", "Exited"}
        /\ pc = "Exited" => exitCode = 1 /\ Len(stderr) = 1

C1_Witness ==
    /\ SomeEnvMissing
    /\ env["OPENAI_API_KEY"] = Undefined
    /\ \A v \in EnvNames \ {"OPENAI_API_KEY"} : ~Not(env[v])
    /\ FailedWith("Environment variable OPENAI_API_KEY is required. "
                  \o "Please set it in your .env file.")

\* C2: a reply that parses as JSON but in which summary, description or
\* acceptanceCriteria is missing or empty is rejected: the run ends with
\* exit status 1 and no POST is sent; a POST is sent only for a reply whose
\* three fields are non-empty.
C2_IncompleteReplyIsRejected ==
    /\ (pc # "Parsing" /\ ReplyIncomplete) =>
            /\ posted = <<>>
            /\ pc \in {"Caught", "Exited"}
            /\ pc = "Exited" => exitCode = 1
    /\ posted # <<>> => ReplyWellFormed

\* the issue tracker answered 2xx with a body that carries no key
SuccessWithoutKey ==
    /\ jiraAnswer # Undefined
    /\ jiraAnswer.status \in 200..299
    /\ Get(jiraAnswer.data, "key") = Undefined

\* C3: a success status whose body carries no issue key ends the run with
\* a non-zero exit status and an Error line, and the success output is
\* never printed.
C3_MissingKeyIsSubmissionError ==
    SuccessWithoutKey =>
        /\ stdout = ProgressLines
        /\ pc = "Exited" => exitCode # 0 /\ Len(stderr) = 1

\* the issue tracker answered with a status outside 2xx
NonSuccessAnswer ==
    /\ jiraAnswer # Undefined
    /\ jiraAnswer.status \notin 200..299

\* C4: after a non-success answer to the POST the run reports the error and
\* exits with status 1, and exactly one POST has been sent in every state
\* from then on.
C4_NonSuccessStatusFailsWithoutRetry ==
    NonSuccessAnswer =>
        /\ Len(posted) = 1
        /\ Len(aiRequests) = 1
        /\ stdout = ProgressLines
        /\ responseJira = Undefined
        /\ Raised("Request failed with status code "
                  \o ToString(jiraAnswer.status))

C4_Witness ==
    /\ NonSuccessAnswer
    /\ jiraAnswer.status = 400
    /\ FailedWith("Request failed with status code 400")

\* C5: a reply that is not valid JSON makes the run fail with the message
\* asking the user to try again and exit status 1; no POST is sent and the
\* completion service has been called exactly once.
C5_UnparsableReplyFails ==
    (HasReplyText /\ ReplyTokens \in MalformedTexts /\ pc # "Parsing") =>
        /\ posted = <<>>
        /\ Len(aiRequests) = 1
        /\ generated = Undefined
        /\ Raised("Failed to parse AI response. Please try again.")

C5_Witness ==
    /\ HasReplyText
    /\ ReplyTokens = FullReply \o FullReply
    /\ FailedWith("Failed to parse AI response. Please try again.")

\* the run got past input validation: it is at, or went through, the
\* generation stage
Accepted ==
    \/ pc \in {"Generating", "AwaitCompletion", "Parsing", "Submitting",
               "AwaitPost", "Reporting"}
    \/ aiRequests # <<>>

\* C6: with every environment variable set, a request passes validation
\* exactly when its type is Bug, Task or Story and its priority is Lowest,
\* Low, Medium, High or Highest; any other request fails with the error
\* listing the accepted values, exit status 1 and no request to either
\* service.
C6_ValidationAcceptsExactlyTheEnumerations ==
    (AllEnvSet /\ pc \notin {"Loading", "Validating"}) =>
        IF TypeRecognized /\ PriorityRecognized
        THEN Accepted
        ELSE /\ ~Accepted
             /\ posted = <<>>
             /\ Raised(IF ~TypeRecognized
                       THEN "Invalid type. Must be one of: Bug, Task, Story"
                       ELSE "Invalid priority. Must be one of: "
                                \o "Lowest, Low, Medium, High, Highest")

C6_Witness ==
    /\ AllEnvSet
    /\ options.type = "Story"
    /\ options.priority = "high"
    /\ FailedWith("Invalid priority. Must be one of: "
                  \o "Lowest, Low, Medium, High, Highest")

\* C7: a run ends with status 0 only after both calls returned and the Key
\* and URL lines were printed, with nothing written as an error; a run in
\* which an error was raised at any stage ends with status 1 and exactly
\* one line "Error: <message>", and never prints the success lines.
C7_ExitStatusReflectsOutcome ==
    /\ exitCode \in {0, 1}
    /\ thrown # Undefined => pc \in {"Caught", "Exited"}
    /\ pc = "Exited" =>
        IF thrown = Undefined
        THEN /\ exitCode = 0
             /\ stderr = <<>>
             /\ Len(aiRequests) = 1 /\ completion # Undefined
             /\ Len(posted) = 1 /\ responseJira # Undefined
             /\ jiraAnswer.status \in 200..299
             /\ Len(stdout) = 5
             /\ stdout[3] = "Ticket created successfully!"
             /\ stdout[4] = "Key: " \o JsString(Get(jiraAnswer.data, "key"))
             /\ stdout[5] = "URL: " \o env["JIRA_BASE_URL"].s \o "/browse/"
                                \o JsString(Get(jiraAnswer.data, "key"))
        ELSE /\ exitCode = 1
             /\ stderr = <<"Error: " \o thrown.s>>
             /\ \A i \in 1..Len(stdout) : stdout[i] = ProgressLines[i]

C7_Witness ==
    /\ pc = "Exited"
    /\ exitCode = 1
    /\ posted # <<>>
    /\ stderr = <<"Error: connect ECONNREFUSED 127.0.0.1:443">>

\* the description field as the sentence of the specification reads: the
\* description directly followed by the header and the criteria
DescriptionThenHeader(d, a) == d \o "Acceptance Criteria:\n" \o a

\* the description field with a blank line before the header
DescriptionBlankLineHeader(d, a) == d \o "\n\nAcceptance Criteria:\n" \o a

\* the other fields of the POST body carry the inputs unchanged
BodyCarriesInputs ==
    /\ Len(posted) = 1
    /\ posted[1].data.fields.summary = Get(Parsed.value, "summary")
    /\ posted[1].data.fields.issuetype.name = options.type
    /\ posted[1].data.fields.priority.name = options.priority
    /\ posted[1].data.fields.project.key = env["JIRA_PROJECT_KEY"]
    /\ TypeRecognized /\ PriorityRecognized

\* C8 as stated: for a well-formed reply the POST body holds the summary,
\* type, priority and project key unchanged, and its description is the
\* reply's description followed by "Acceptance Criteria:\n" and the reply's
\* acceptanceCriteria.
C8_BodyAsStated ==
    (posted # <<>> /\ ReplyWellFormed) =>
        /\ BodyCarriesInputs
        /\ posted[1].data.fields.description =
              DescriptionThenHeader(Get(Parsed.value, "description").s,
                                    Get(Parsed.value, "acceptanceCriteria").s)

\* C8 amended: as above, with the description followed by a blank line
\* ("\n\n"), then "Acceptance Criteria:\n", then the acceptanceCriteria.
C8_BodyWithBlankLine ==
    (posted # <<>> /\ ReplyWellFormed) =>
        /\ BodyCarriesInputs
        /\ posted[1].data.fields.description =
              DescriptionBlankLineHeader(
                  Get(Parsed.value, "description").s,
                  Get(Parsed.value, "acceptanceCriteria").s)

C8_Witness ==
    /\ ReplyWellFormed
    /\ ReplyTokens = FullReply
    /\ Len(posted) = 1
    /\ posted[1].data.fields.summary = Str(SampleSummary)
    /\ posted[1].data.fields.issuetype.name = "Bug"
    /\ posted[1].data.fields.priority.name = "High"
    /\ posted[1].data.fields.project.key = Str("PROJ")

\* the issue tracker answered 2xx with a body whose key is a string
CreatedWithKey ==
    /\ jiraAnswer # Undefined
    /\ jiraAnswer.status \in 200..299
    /\ Get(jiraAnswer.data, "key").tag = "string"

\* C9: after a successful creation whose response carries key K the run
\* prints "Key: K" and "URL: <JIRA_BASE_URL>/browse/K" and ends with
\* status 0.
C9_SuccessPrintsKeyAndUrl ==
    (CreatedWithKey /\ pc = "Exited") =>
        /\ exitCode = 0
        /\ stderr = <<>>
        /\ stdout = ProgressLines \o
              <<"Ticket created successfully!",
                "Key: " \o jiraAnswer.data.props["key"].s,
                "URL: " \o env["JIRA_BASE_URL"].s \o "/browse/"
                    \o jiraAnswer.data.props["key"].s>>

C9_Witness ==
    /\ CreatedWithKey
    /\ pc = "Exited"
    /\ exitCode = 0
    /\ env["JIRA_BASE_URL"] = Str("https://example.atlassian.net")
    /\ stdout[4] = "Key: PROJ-123"
    /\ stdout[5] = "URL: https://example.atlassian.net/browse/PROJ-123"

\* the stage of the five-stage chain a position belongs to
Stage(p) ==
    CASE p = "Loading" -> 1
      [] p = "Validating" -> 2
      [] p \in {"Generating", "AwaitCompletion", "Parsing"} -> 3
      [] p \in {"Submitting", "AwaitPost"} -> 4
      [] p \in {"Reporting", "Caught", "Exited"} -> 5

\* C10, one step of a run: the stage never decreases and advances by at
\* most one unless the step raises an error; an error raised while a
\* variable is unset is the configuration error; the completion request is
\* sent at most once, after both checks passed; the POST is sent at most
\* once, after the reply was parsed; once an error is raised the only step
\* left is the report, which sends nothing.
C10_Step ==
    /\ Stage(pc') >= Stage(pc)
    /\ pc' # "Caught" => Stage(pc') <= Stage(pc) + 1
    /\ (pc' = "Caught" /\ ~AllEnvSet) =>
            /\ pc = "Loading"
            /\ \E v \in EnvNames :
                thrown' = Str("Environment variable " \o v
                    \o " is required. Please set it in your .env file.")
    /\ aiRequests' # aiRequests =>
            /\ aiRequests = <<>> /\ Len(aiRequests') = 1
            /\ pc = "Generating"
            /\ AllEnvSet /\ TypeRecognized /\ PriorityRecognized
    /\ posted' # posted =>
            /\ posted = <<>> /\ Len(posted') = 1
            /\ Len(aiRequests) = 1
            /\ HasReplyText /\ Parsed.ok /\ generated = Parsed.value
    /\ pc = "Caught" =>
            /\ pc' = "Exited"
            /\ UNCHANGED <<aiRequests, posted, stdout>>
    /\ pc = "Exited" => UNCHANGED vars

\* C10: every step of every run is a step of the linear chain, as C10_Step
\* states it.
C10_LinearChain == [][C10_Step]_vars

C10_Witness ==
    /\ env["JIRA_API_TOKEN"] = Undefined
    /\ options.type = "Epic"
    /\ aiRequests = <<>>
    /\ FailedWith("Environment variable JIRA_API_TOKEN is required. "
                  \o "Please set it in your .env file.")

====
